---------------------------- MODULE Spec2Model ----------------------------
(***************************************************************************)
(* NoFakePNG API (src/main.py): the per-client sliding-window RateLimiter, *)
(* the check_rate_limit dependency and the remove_background handler       *)
(* (declared-type check, chunked size-bounded read, image validation,      *)
(* background removal, PNG encoding, error mapping).                       *)
(*                                                                         *)
(* Time is counted in ticks, TicksPerSecond ticks to the second, so that   *)
(* timestamps have a sub-second position as datetime.now() does.           *)
(* Handlers are coroutines of one event loop: a coroutine keeps the loop   *)
(* from one suspension point to the next (variable running).               *)
(***************************************************************************)
EXTENDS Integers, Sequences, FiniteSets, TLC

VARIABLES
    clock,                \* datetime.now(), in ticks
    requests_per_minute,  \* RateLimiter.requests_per_minute
    request_history,      \* RateLimiter.request_history: client -> timestamps
    req,                  \* the requests: locals of each coroutine and its response
    running,              \* the request whose coroutine holds the event loop, 0 if none
    calls                 \* the requests in the order is_rate_limited decided them

vars == <<clock, requests_per_minute, request_history, req, running, calls>>

---------------------------------------------------------------------------
(* Bounds of the model *)

TicksPerSecond == 2
\* a burst of Burst instants, and Burst instants from one window later on, are modelled
Burst == 3
\* requests_per_minute ranges over 1..MaxLimit
MaxLimit == 2
\* requests of the limiter specification
MaxCalls == 3
\* requests of the full specification
MaxReqs == 2
\* whole chunks by which an upload may exceed the ceiling
MaxOver == 1

---------------------------------------------------------------------------
(* Program constants *)

\* timedelta(minutes=1) and the 60 of wait_seconds, in seconds
WINDOW_SECONDS == 60
MAX_FILE_SIZE == 10 * 1024 * 1024
chunk_size == 1024 * 1024
valid_image_types == {"image/jpeg", "image/png", "image/jpg", "image/webp", "image/bmp"}

RateLimitedDetail == "Muitas requisicoes. Por favor, tente novamente em {wait_seconds} segundos."
InvalidTypeDetail == "Tipo de arquivo invalido. Por favor, envie uma imagem (JPEG, PNG, WebP ou BMP)."
TooLargeDetail == "O arquivo excede o tamanho maximo permitido de 10MB."
InvalidImageDetail == "O arquivo enviado nao e uma imagem valida."
ProcessingErrorDetail == "Erro interno durante o processamento da imagem."
ServerErrorDetail == "Erro interno do servidor."
\* Starlette's answer to an exception no handler caught
UnhandledDetail == "Internal Server Error"

\* str(e) of the exceptions the libraries raise
IndexErrorText == "IndexError: list index out of range"
ReadErrorText == "OSError: read of the upload failed"
OpenErrorText == "UnidentifiedImageError: cannot identify image file"
RemoveErrorText == "OSError: rembg.remove failed on the image"
SaveErrorText == "OSError: save of the PNG failed"

---------------------------------------------------------------------------
(* Inputs *)

Window == WINDOW_SECONDS * TicksPerSecond

Clients == {"10.0.0.1", "10.0.0.2"}

\* the instants at which something may happen: a burst, the last tick of its
\* window, and one window later
Instants == (0 .. Burst - 1) \cup ((Window - 1) .. (Window + Burst - 1))
CoarseInstants == {0, Window - 1, Window}

ContentTypes == {"image/png", "image/jpg", "IMAGE/PNG"}

BodyLens ==
    {0, 1, chunk_size}
      \cup { MAX_FILE_SIZE + k * chunk_size + e : k \in 0 .. MaxOver, e \in {0, 1} }

\* what the uploaded bytes are: kind "unidentified" is refused by Image.open,
\* kind "truncated" has a readable header and incomplete pixel data
NoImage == [kind |-> "none", width |-> 0, height |-> 0]
Images ==
    { [kind |-> "unidentified", width |-> 0, height |-> 0],
      [kind |-> "truncated", width |-> 500, height |-> 500],
      [kind |-> "valid", width |-> 500, height |-> 500],
      [kind |-> "valid", width |-> 5000, height |-> 3000],
      [kind |-> "valid", width |-> 3000, height |-> 5000] }

---------------------------------------------------------------------------
(* Exceptions and responses *)

HTTPException(status_code, detail) ==
    [http |-> TRUE, status |-> status_code, detail |-> detail]
PyException(text) == [http |-> FALSE, status |-> 0, detail |-> text]
NoException == [http |-> FALSE, status |-> 0, detail |-> ""]

Max(a, b) == IF a >= b THEN a ELSE b
Min(a, b) == IF a <= b THEN a ELSE b

\* int(n / d): truncation toward zero
IntTrunc(n, d) == IF n >= 0 THEN n \div d ELSE -((-n) \div d)

---------------------------------------------------------------------------
(* RateLimiter.is_rate_limited *)

RecentOrEqual(req_time, minute_ago) == req_time >= minute_ago
RecentNever(req_time, minute_ago) == FALSE

\* the filter of the list comprehension: req_time > minute_ago
Recent(req_time, minute_ago) == req_time > minute_ago

PruneNothing(history, now) == history

Prune(history, now) ==
    SelectSeq(history, LAMBDA req_time : Recent(req_time, now - Window))

LimitReachedEarly(current_requests, limit) == current_requests + 1 >= limit
LimitExceeded(current_requests, limit) == current_requests > limit

\* current_requests >= self.requests_per_minute
LimitReached(current_requests, limit) == current_requests >= limit

WaitSecondsUnclamped(now, oldest_request) ==
    IntTrunc(Window - (now - oldest_request), TicksPerSecond)

\* max(1, int(60 - (now - oldest_request).total_seconds()))
WaitSeconds(now, oldest_request) ==
    Max(1, IntTrunc(Window - (now - oldest_request), TicksPerSecond))

---------------------------------------------------------------------------
(* The event loop *)

SuspendsAnywhere(pc) == TRUE

\* a coroutine gives up the loop where it awaits (the endpoint call after the
\* dependency, file.read) and when it ends
Suspends(pc) == pc \in {"handler", "read", "done", "closed"}

IdleReq ==
    [pc |-> "idle", client |-> "", content_type |-> "", body_len |-> 0,
     now |-> 0, limited |-> FALSE, wait_seconds |-> 0,
     reads |-> 0, pos |-> 0, file_size |-> 0, contents |-> <<>>,
     image |-> NoImage, raised |-> NoException,
     status |-> 0, detail |-> "", stages |-> <<>>]

\* the requests whose response is not yet sent
InFlight == { q \in DOMAIN req : req[q].pc \notin {"idle", "closed"} }

\* request r takes one step of its coroutine and is left as next
Step(r, next) ==
    /\ running \in {0, r}
    /\ req' = [req EXCEPT ![r] = next]
    /\ running' = IF Suspends(next.pc) THEN 0 ELSE r

RespondAndRetry(r, exc) ==
    [req[r] EXCEPT !.pc = "handler", !.status = exc.status, !.detail = exc.detail,
                   !.stages = <<"Admitted">>, !.reads = 0, !.pos = 0,
                   !.file_size = 0, !.contents = <<>>, !.image = NoImage]

Respond(r, exc) ==
    [req[r] EXCEPT !.pc = "done", !.status = exc.status, !.detail = exc.detail]

---------------------------------------------------------------------------
(* Actions *)

Tick(instants) ==
    /\ \E t \in instants : t > clock /\ clock' = t
    /\ UNCHANGED <<requests_per_minute, request_history, req, running, calls>>

\* a request arrives and check_rate_limit calls is_rate_limited, up to the
\* creation of the client's history
Enter(r, clients, types, lens, cap) ==
    /\ req[r].pc = "idle"
    /\ \A q \in DOMAIN req : q < r => req[q].pc # "idle"
    /\ Cardinality(InFlight) < cap
    /\ \E c \in clients, ty \in types, len \in lens :
         /\ Step(r, [req[r] EXCEPT !.pc = "prune", !.client = c,
                                   !.content_type = ty, !.body_len = len,
                                   !.now = clock])
         /\ request_history' =
              [k \in DOMAIN request_history \cup {c} |->
                 IF k \in DOMAIN request_history THEN request_history[k] ELSE <<>>]
    /\ UNCHANGED <<clock, requests_per_minute, calls>>

\* the old timestamps are removed
RL_Prune(r) ==
    /\ req[r].pc = "prune"
    /\ Step(r, [req[r] EXCEPT !.pc = "check"])
    /\ request_history' =
         [request_history EXCEPT
            ![req[r].client] = Prune(request_history[req[r].client], req[r].now)]
    /\ UNCHANGED <<clock, requests_per_minute, calls>>

AfterCheckNoRaise(is_limited) == "append"

\* where check_rate_limit leaves the request: it raises on a limited client
AfterCheck(is_limited) == IF is_limited THEN "done" ELSE "append"

\* the limit check; on a limited client the return (True, wait) and the
\* HTTPException of check_rate_limit
RL_Check(r) ==
    /\ req[r].pc = "check"
    /\ LET history == request_history[req[r].client]
           is_limited == LimitReached(Len(history), requests_per_minute)
       IN  IF is_limited
           THEN IF Len(history) = 0
                THEN \* history[0] of an empty list: IndexError, caught by nothing
                     Step(r, [Respond(r, HTTPException(500, UnhandledDetail))
                                EXCEPT !.raised = PyException(IndexErrorText)])
                ELSE LET exc == HTTPException(429, RateLimitedDetail)
                     IN  Step(r, [Respond(r, exc)
                                    EXCEPT !.pc = AfterCheck(is_limited),
                                           !.limited = TRUE,
                                           !.wait_seconds = WaitSeconds(req[r].now, history[1]),
                                           !.raised = exc])
           ELSE Step(r, [req[r] EXCEPT !.pc = AfterCheck(is_limited)])
    /\ calls' = IF LimitReached(Len(request_history[req[r].client]), requests_per_minute)
                THEN Append(calls, r) ELSE calls
    /\ UNCHANGED <<clock, requests_per_minute, request_history>>

\* the request is recorded and is_rate_limited returns (False, 0)
RL_Append(r) ==
    /\ req[r].pc = "append"
    /\ Step(r, [req[r] EXCEPT !.pc = "handler", !.stages = Append(@, "Admitted")])
    /\ request_history' =
         [request_history EXCEPT ![req[r].client] = Append(@, req[r].now)]
    /\ calls' = Append(calls, r)
    /\ UNCHANGED <<clock, requests_per_minute>>

---------------------------------------------------------------------------
(* remove_background *)

TypeAcceptedAlways(content_type) == TRUE
TypeAcceptedAnyCase(content_type) ==
    content_type \in valid_image_types \cup {"IMAGE/PNG"}

\* file.content_type in valid_image_types
TypeAccepted(content_type) == content_type \in valid_image_types

TooLargeOrEqual(file_size) == file_size >= MAX_FILE_SIZE
TooLargeAboveChunk(file_size) == file_size > MAX_FILE_SIZE + chunk_size

\* file_size > MAX_FILE_SIZE
TooLarge(file_size) == file_size > MAX_FILE_SIZE

\* Image.open reads the header only; the pixel data is read when the image is used
ImageOpenFails(img) == img.kind = "unidentified"
ImageLoadFails(img) == img.kind = "truncated"

\* what a body of len bytes may be: no image fits in a byte
ImagesOf(len) == IF len <= 1 THEN { i \in Images : i.kind = "unidentified" } ELSE Images

\* except HTTPException: raise / except Exception: 400, around Image.open
ValidateExcept(exc) ==
    IF exc.http THEN exc ELSE HTTPException(400, InvalidImageDetail)

\* except Exception: 500, around rembg.remove and save
ProcessExcept(exc) == HTTPException(500, ProcessingErrorDetail)

OuterExceptLeaks(exc) ==
    IF exc.http THEN exc ELSE HTTPException(500, exc.detail)

\* except HTTPException: raise / except Exception: 500, around the whole try
OuterExcept(exc) ==
    IF exc.http THEN exc ELSE HTTPException(500, ServerErrorDetail)

Fail(r, raised, exc) == [Respond(r, exc) EXCEPT !.raised = raised]

\* the declared content type is checked first
TypeCheck(r) ==
    /\ req[r].pc = "handler"
    /\ IF TypeAccepted(req[r].content_type)
       THEN Step(r, [req[r] EXCEPT !.pc = "read", !.stages = Append(@, "TypeChecked")])
       ELSE LET exc == HTTPException(400, InvalidTypeDetail)
            IN  Step(r, Fail(r, exc, exc))
    /\ UNCHANGED <<clock, requests_per_minute, request_history, calls>>

\* one turn of the read loop: await file.read(chunk_size)
ReadChunk(r) ==
    /\ req[r].pc = "read"
    /\ LET chunk == Min(chunk_size, req[r].body_len - req[r].pos)
           size == req[r].file_size + chunk
           read == [req[r] EXCEPT !.reads = @ + 1, !.pos = @ + chunk]
       IN  IF chunk = 0
           THEN Step(r, [read EXCEPT !.pc = "validate", !.stages = Append(@, "Ingested")])
           ELSE LET kept == [read EXCEPT !.file_size = size,
                                         !.contents = Append(@, <<req[r].pos, chunk>>)]
                    exc == HTTPException(413, TooLargeDetail)
                IN  IF TooLarge(size)
                    THEN Step(r, [kept EXCEPT !.pc = "done", !.raised = exc,
                                              !.status = OuterExcept(exc).status,
                                              !.detail = OuterExcept(exc).detail])
                    ELSE Step(r, kept)
    /\ UNCHANGED <<clock, requests_per_minute, request_history, calls>>

\* file.read raises
ReadError(r) ==
    /\ req[r].pc = "read"
    /\ LET exc == PyException(ReadErrorText)
       IN  Step(r, Fail(r, exc, OuterExcept(exc)))
    /\ UNCHANGED <<clock, requests_per_minute, request_history, calls>>

\* Image.open(io.BytesIO(contents)), mode and size
Validate(r) ==
    /\ req[r].pc = "validate"
    /\ \E img \in ImagesOf(req[r].body_len) :
         IF ImageOpenFails(img)
         THEN LET exc == PyException(OpenErrorText)
              IN  Step(r, [Fail(r, exc, OuterExcept(ValidateExcept(exc)))
                             EXCEPT !.image = img])
         ELSE Step(r, [req[r] EXCEPT !.pc = "transform", !.image = img,
                                     !.stages = Append(@, "Validated")])
    /\ UNCHANGED <<clock, requests_per_minute, request_history, calls>>

\* rembg.remove(input_image)
Transform(r) ==
    /\ req[r].pc = "transform"
    /\ \E fails \in BOOLEAN :
         /\ ImageLoadFails(req[r].image) => fails
         /\ IF fails
            THEN LET exc == PyException(RemoveErrorText)
                 IN  Step(r, Fail(r, exc, OuterExcept(ProcessExcept(exc))))
            ELSE Step(r, [req[r] EXCEPT !.pc = "encode",
                                        !.stages = Append(@, "Transformed")])
    /\ UNCHANGED <<clock, requests_per_minute, request_history, calls>>

\* output_image.save(img_byte_arr, format='PNG') and the Response
Encode(r) ==
    /\ req[r].pc = "encode"
    /\ \E fails \in BOOLEAN :
         IF fails
         THEN LET exc == PyException(SaveErrorText)
              IN  Step(r, Fail(r, exc, OuterExcept(ProcessExcept(exc))))
         ELSE Step(r, [req[r] EXCEPT !.pc = "done", !.status = 200,
                                     !.detail = "image/png",
                                     !.stages = Append(@, "Encoded")])
    /\ UNCHANGED <<clock, requests_per_minute, request_history, calls>>

\* the response is sent and the request's objects are released; the log keeps
\* the client, the time of the rate limiter's decision and the status
Close(r) ==
    /\ req[r].pc = "done"
    /\ Step(r, [IdleReq EXCEPT !.pc = "closed", !.client = req[r].client,
                               !.now = req[r].now, !.status = req[r].status])
    /\ UNCHANGED <<clock, requests_per_minute, request_history, calls>>

---------------------------------------------------------------------------
(* Specifications *)

InitOf(n) ==
    /\ clock = 0
    /\ requests_per_minute \in 1 .. MaxLimit
    /\ request_history = [k \in {} |-> <<>>]
    /\ req = [r \in 1 .. n |-> IdleReq]
    /\ running = 0
    /\ calls = <<>>

\* the whole endpoint, the requests of one client handled one after the other
Init == InitOf(MaxReqs)

Next ==
    \/ Tick(CoarseInstants)
    \/ \E r \in DOMAIN req : Enter(r, {"10.0.0.1"}, ContentTypes, BodyLens, 1)
    \/ \E r \in DOMAIN req : RL_Prune(r)
    \/ \E r \in DOMAIN req : RL_Check(r)
    \/ \E r \in DOMAIN req : RL_Append(r)
    \/ \E r \in DOMAIN req : TypeCheck(r)
    \/ \E r \in DOMAIN req : ReadChunk(r)
    \/ \E r \in DOMAIN req : ReadError(r)
    \/ \E r \in DOMAIN req : Validate(r)
    \/ \E r \in DOMAIN req : Transform(r)
    \/ \E r \in DOMAIN req : Encode(r)
    \/ \E r \in DOMAIN req : Close(r)

Spec == Init /\ [][Next]_vars

\* the rate limiter under bursts of requests: the requests stop where the
\* endpoint would be called
InitLimiter == InitOf(MaxCalls)

NextLimiter ==
    \/ Tick(Instants)
    \/ \E r \in DOMAIN req : Enter(r, Clients, {"image/png"}, {chunk_size}, MaxCalls)
    \/ \E r \in DOMAIN req : RL_Prune(r)
    \/ \E r \in DOMAIN req : RL_Check(r)
    \/ \E r \in DOMAIN req : RL_Append(r)

SpecLimiter == InitLimiter /\ [][NextLimiter]_vars

\* the rate limiter constructed with any limit, 0 included
InitAnyLimit ==
    /\ clock = 0
    /\ requests_per_minute \in 0 .. MaxLimit
    /\ request_history = [k \in {} |-> <<>>]
    /\ req = [r \in 1 .. MaxCalls |-> IdleReq]
    /\ running = 0
    /\ calls = <<>>

NextAnyLimit ==
    \/ Tick(CoarseInstants)
    \/ \E r \in DOMAIN req : Enter(r, Clients, {"image/png"}, {chunk_size}, MaxCalls)
    \/ \E r \in DOMAIN req : RL_Prune(r)
    \/ \E r \in DOMAIN req : RL_Check(r)
    \/ \E r \in DOMAIN req : RL_Append(r)

SpecAnyLimit == InitAnyLimit /\ [][NextAnyLimit]_vars

\* the steps of request r's coroutine once the request has arrived
Progress(r) ==
    \/ RL_Prune(r) \/ RL_Check(r) \/ RL_Append(r)
    \/ TypeCheck(r) \/ ReadChunk(r)
    \/ Validate(r) \/ Transform(r) \/ Encode(r) \/ Close(r)

\* the whole endpoint under the event loop's scheduling: the coroutine that can
\* take a step is eventually given the loop (one request is in flight at a
\* time), file.read and rembg.remove return or raise
SpecFair == Init /\ [][Next]_vars /\ WF_vars(\E r \in DOMAIN req : Progress(r))


---------------------------------------------------------------------------
(* The rate limiter's decisions, read from the log of calls *)

Call(i) == req[calls[i]]
CallIds == 1 .. Len(calls)

\* the calls of i's client up to and including i that are less than a window old at i
IssuedInWindow(i) ==
    { j \in 1 .. i : /\ Call(j).client = Call(i).client
                     /\ Call(j).now > Call(i).now - Window }

\* those before i
IssuedBefore(i) == IssuedInWindow(i) \ {i}

AdmittedBefore(i) == { j \in IssuedBefore(i) : ~Call(j).limited }

\* k is the next call of i's client after i
NextCallOf(i, k) ==
    /\ i < k
    /\ Call(k).client = Call(i).client
    /\ \A j \in (i + 1) .. (k - 1) : Call(j).client # Call(i).client

\* C1: a call of a client that has issued at most requests_per_minute requests,
\* this one included, within the 60 seconds ending at the call is admitted:
\* is_rate_limited returns (False, 0).
C1_AdmittedWithinLimit ==
    \A i \in CallIds :
        Cardinality(IssuedInWindow(i)) <= requests_per_minute
            => /\ ~Call(i).limited
               /\ Call(i).wait_seconds = 0
               /\ Call(i).status # 429

\* C1 witness: a client fills its window exactly, with two requests or more, and
\* the last of them is admitted.
C1_Witness ==
    \E i \in CallIds :
        /\ requests_per_minute >= 2
        /\ Cardinality(IssuedInWindow(i)) = requests_per_minute
        /\ ~Call(i).limited
        /\ Call(i).pc = "handler"

\* C2 as stated: a call that finds requests_per_minute or more earlier requests
\* of its client within the last 60 seconds, admitted or not, is rejected with
\* 429 and a retry-after of at least 1.
C2_RejectedBeyondIssued ==
    \A i \in CallIds :
        Cardinality(IssuedBefore(i)) >= requests_per_minute
            => /\ Call(i).limited
               /\ Call(i).status = 429
               /\ Call(i).wait_seconds >= 1

\* C2 amended: a call that finds requests_per_minute or more earlier ADMITTED
\* requests of its client less than 60 seconds old is rejected with 429 and a
\* retry-after of at least 1 (rejected requests take no slot).
C2_RejectedBeyondAdmitted ==
    \A i \in CallIds :
        Cardinality(AdmittedBefore(i)) >= requests_per_minute
            => /\ Call(i).limited
               /\ Call(i).status = 429
               /\ Call(i).pc = "done"
               /\ Call(i).wait_seconds >= 1

\* C2 witness: requests_per_minute requests are admitted in a burst and the next
\* one in the same window is rejected with 429.
C2_Witness ==
    \E i \in CallIds :
        /\ Cardinality(AdmittedBefore(i)) = requests_per_minute
        /\ requests_per_minute >= 2
        /\ Call(i).limited
        /\ Call(i).status = 429
        /\ Call(i).wait_seconds >= 1

\* C3 as stated: when a call is rejected at t with retry-after r and the client's
\* next call comes at t + r seconds, that call is admitted.
C3_AdmittedAfterWait ==
    \A i \in CallIds, k \in CallIds :
        ( /\ NextCallOf(i, k)
          /\ Call(i).limited
          /\ Call(k).now = Call(i).now + Call(i).wait_seconds * TicksPerSecond )
            => ~Call(k).limited

\* C4: is_rate_limited runs between two suspension points of its coroutine, so
\* a client's history never holds more than requests_per_minute timestamps, and
\* never more than requests_per_minute of a client's requests are admitted
\* within 60 seconds.
C4_NoDoubleAdmission ==
    /\ \A c \in DOMAIN request_history :
          Len(request_history[c]) <= requests_per_minute
    /\ \A i \in CallIds :
          Cardinality({ j \in CallIds :
                          /\ Call(j).client = Call(i).client
                          /\ ~Call(j).limited
                          /\ Call(j).now > Call(i).now - Window
                          /\ Call(j).now <= Call(i).now }) <= requests_per_minute

\* C4 witness: two requests of one client at the same instant, the first still in
\* flight with the last slot, the second rejected.
C4_Witness ==
    \E r1 \in DOMAIN req, r2 \in DOMAIN req :
        /\ r1 # r2
        /\ req[r1].client = req[r2].client
        /\ req[r1].now = req[r2].now
        /\ req[r1].pc = "handler"
        /\ req[r2].limited
        /\ Len(request_history[req[r1].client]) = requests_per_minute



---------------------------------------------------------------------------
(* The handler's outcomes *)

Reqs == DOMAIN req
Reached(r, stage) == \E k \in 1 .. Len(req[r].stages) : req[r].stages[k] = stage

StageOrder ==
    <<"Admitted", "TypeChecked", "Ingested", "Validated", "Transformed", "Encoded">>

\* the read loop of r has ended on an upload above the ceiling, file.read not failing
OversizedRead(r) ==
    /\ Reached(r, "TypeChecked")
    /\ req[r].body_len > MAX_FILE_SIZE
    /\ req[r].pc # "read"
    /\ req[r].raised # PyException(ReadErrorText)

\* C5: a request the rate limiter rejects ends at once with 429 and the retry
\* hint; nothing of the handler has run for it: no type check, no read, no
\* buffer, no decode, no transformation, no encoding.
C5_RejectedDoesNothing ==
    \A r \in Reqs :
        req[r].limited
            => /\ req[r].pc = "done"
               /\ req[r].status = 429
               /\ req[r].detail = RateLimitedDetail
               /\ req[r].wait_seconds >= 1
               /\ req[r].stages = <<>>
               /\ req[r].reads = 0
               /\ req[r].file_size = 0
               /\ req[r].contents = <<>>
               /\ req[r].image = NoImage

\* C5 witness: a client's request is rejected after an earlier one was admitted.
C5_Witness ==
    \E r \in Reqs :
        /\ req[r].limited
        /\ req[r].status = 429
        /\ Len(request_history[req[r].client]) = requests_per_minute
        /\ Len(calls) >= 2

\* C6 as stated: every upload longer than the ceiling fails with 413 while
\* strictly fewer bytes than the whole body are in the buffer.
C6_FailsBeforeWholeBody ==
    \A r \in Reqs :
        OversizedRead(r)
            => /\ req[r].status = 413
               /\ req[r].file_size < req[r].body_len

\* C6 amended: every upload longer than the ceiling fails with 413 at the first
\* chunk that takes the running count above the ceiling, with
\* min(length, 10 MiB + 1 MiB) bytes in the buffer: strictly fewer than the
\* whole body exactly when the length exceeds 11 MiB.
C6_FailsWithinOneChunk ==
    \A r \in Reqs :
        OversizedRead(r)
            => /\ req[r].status = 413
               /\ req[r].pc = "done"
               /\ req[r].file_size > MAX_FILE_SIZE
               /\ req[r].file_size = Min(req[r].body_len, MAX_FILE_SIZE + chunk_size)
               /\ (req[r].file_size < req[r].body_len
                     <=> req[r].body_len > MAX_FILE_SIZE + chunk_size)

\* C6 witness: an upload of more than 11 MiB has failed with 413 before its
\* last bytes were read.
C6_Witness ==
    \E r \in Reqs :
        /\ req[r].status = 413
        /\ req[r].body_len > MAX_FILE_SIZE + chunk_size
        /\ req[r].file_size < req[r].body_len

\* C7 as stated: an upload that decodes and is wider or higher than 4000 pixels
\* ends with 400 and is never handed to the transformation.
C7_DimensionRejected ==
    \A r \in Reqs :
        ( /\ req[r].image.kind = "valid"
          /\ (req[r].image.width > 4000 \/ req[r].image.height > 4000) )
            => /\ ~Reached(r, "Transformed")
               /\ (req[r].pc = "done" => req[r].status = 400)

\* C8 as stated: bytes that do not decode as an image (unidentifiable, or cut
\* short) end with 400 and the invalid-image detail, never with 500 or 200.
C8_UndecodableIs400 ==
    \A r \in Reqs :
        ( /\ req[r].pc = "done"
          /\ req[r].image.kind \in {"unidentified", "truncated"} )
            => /\ req[r].status = 400
               /\ req[r].detail = InvalidImageDetail

C10_ErrorMapping ==
    \A r \in Reqs :
        req[r].pc = "done"
            => /\ req[r].status \in {200, 400, 413, 429, 500}
               /\ req[r].status = 200 <=> req[r].raised = NoException
               /\ req[r].status = 429 <=> req[r].detail = RateLimitedDetail
               /\ req[r].status = 413 <=> req[r].detail = TooLargeDetail
               /\ req[r].status = 400
                     <=> req[r].detail \in {InvalidTypeDetail, InvalidImageDetail}
               /\ req[r].status = 500
                     <=> req[r].detail \in {ProcessingErrorDetail, ServerErrorDetail,
                                            UnhandledDetail}
               /\ req[r].raised.http
                     => /\ req[r].status = req[r].raised.status
                        /\ req[r].detail = req[r].raised.detail
               /\ (req[r].raised # NoException /\ ~req[r].raised.http)
                     => /\ req[r].detail # req[r].raised.detail
                        /\ req[r].status = IF req[r].raised.detail = OpenErrorText
                                           THEN 400 ELSE 500

\* C10 witness: file.read has raised and the request has ended with 500 and the
\* generic message.
C10_Witness ==
    \E r \in Reqs :
        /\ req[r].pc = "done"
        /\ req[r].raised = PyException(ReadErrorText)
        /\ req[r].status = 500
        /\ req[r].detail = ServerErrorDetail

---------------------------------------------------------------------------
(* The declared content type *)

\* the four MIME strings the specification names
SpecifiedTypes == {"image/jpeg", "image/png", "image/webp", "image/bmp"}

\* the type check of r has been made
TypeDecided(r) ==
    /\ Reached(r, "Admitted")
    /\ req[r].pc # "handler"

\* C11 as stated: a request passes the type check only if its declared type is
\* one of image/jpeg, image/png, image/webp, image/bmp.
C11_OnlyFourTypes ==
    \A r \in Reqs :
        Reached(r, "TypeChecked") => req[r].content_type \in SpecifiedTypes

\* C11 amended: a request passes the type check exactly when its declared type
\* is one of the five strings of valid_image_types (image/jpg included), compared
\* case-sensitively; any other declared type ends with 400 and the invalid-type
\* detail before anything is read, decoded or transformed.
C11_OnlyListedTypes ==
    \A r \in Reqs :
        TypeDecided(r)
            => /\ Reached(r, "TypeChecked") <=> req[r].content_type \in valid_image_types
               /\ req[r].content_type \notin valid_image_types
                     => /\ req[r].pc = "done"
                        /\ req[r].status = 400
                        /\ req[r].detail = InvalidTypeDetail
                        /\ req[r].stages = <<"Admitted">>
                        /\ req[r].reads = 0
                        /\ req[r].contents = <<>>
                        /\ req[r].image = NoImage

\* C11 witness: a request declaring IMAGE/PNG, with a body within the ceiling,
\* has ended with 400 and the invalid-type detail.
C11_Witness ==
    \E r \in Reqs :
        /\ req[r].pc = "done"
        /\ req[r].content_type = "IMAGE/PNG"
        /\ req[r].body_len = chunk_size
        /\ req[r].status = 400
        /\ req[r].detail = InvalidTypeDetail

---------------------------------------------------------------------------
(* The retry-after value and the pruning, read from the log of calls *)

\* the times of the earlier admitted calls of i's client that are less than a
\* window old at call i, in the order of the calls
AdmittedTimes(i) ==
    LET kept == SelectSeq(SubSeq(calls, 1, i - 1),
                          LAMBDA q : /\ req[q].client = Call(i).client
                                     /\ ~req[q].limited
                                     /\ req[q].now > Call(i).now - Window)
    IN  [k \in 1 .. Len(kept) |-> req[kept[k]].now]

\* w is what is left of the window, in ticks, cut to whole seconds, and 1 at least
WholeSecondsOf(w, left) ==
    IF left < TicksPerSecond
    THEN w = 1
    ELSE w * TicksPerSecond <= left /\ left < (w + 1) * TicksPerSecond

\* C12: a rejected call returns as retry-after the window less the age of the
\* oldest timestamp left after pruning, truncated to whole seconds and 1 at
\* least: an integer of 1..60, never measured from a pruned timestamp.
C12_RetryAfter ==
    \A i \in CallIds :
        Call(i).limited
            => /\ AdmittedTimes(i) # <<>>
               /\ WholeSecondsOf(Call(i).wait_seconds,
                                 Window - (Call(i).now - AdmittedTimes(i)[1]))
               /\ Call(i).wait_seconds \in 1 .. WINDOW_SECONDS

\* C12 witness: a call is rejected after an older timestamp of its client was
\* pruned, and its retry-after, above the minimum, is measured from the
\* timestamp that is left.
C12_Witness ==
    \E i \in CallIds :
        /\ Call(i).limited
        /\ \E j \in 1 .. (i - 1) :
              /\ Call(j).client = Call(i).client
              /\ ~Call(j).limited
              /\ Call(j).now <= Call(i).now - Window
        /\ Call(i).wait_seconds > 1
        /\ Call(i).wait_seconds < WINDOW_SECONDS


\* the earlier admitted calls of i's client that are at most a window old at
\* call i, the calls exactly a window old included
AdmittedNotOlder(i) ==
    { j \in 1 .. (i - 1) : /\ Call(j).client = Call(i).client
                           /\ ~Call(j).limited
                           /\ Call(j).now >= Call(i).now - Window }

\* C13 as stated: pruning keeps a timestamp that is exactly 60 seconds old, so a
\* call that finds requests_per_minute admitted requests of its client at most
\* 60 seconds old, the oldest exactly 60 seconds old, is rejected.
C13_BoundaryKept ==
    \A i \in CallIds :
        Cardinality(AdmittedNotOlder(i)) >= requests_per_minute
            => Call(i).limited


\* every timestamp of the history lies in the window of 60 seconds ending at now
WithinWindow(history, now) ==
    \A k \in 1 .. Len(history) : history[k] > now - Window /\ history[k] <= now

\* request r is where is_rate_limited decides (the history pruned), or is the
\* request whose call has returned last
AtDecision(r) ==
    \/ req[r].pc \in {"check", "append"}
    \/ Len(calls) > 0 /\ calls[Len(calls)] = r /\ req[r].pc \in {"handler", "done"}

\* C14: when is_rate_limited decides for a client, and in the state its call
\* leaves, every timestamp of the client's history lies within the 60 seconds
\* ending at the call's now: no stale timestamp is counted.
C14_HistoryWithinWindow ==
    \A r \in DOMAIN req :
        AtDecision(r) => WithinWindow(request_history[req[r].client], req[r].now)

\* C14 witness: a call has decided after a stale timestamp of its client was
\* pruned, and the client's history holds its timestamp only.
C14_Witness ==
    \E r \in DOMAIN req :
        /\ AtDecision(r)
        /\ req[r].pc = "handler"
        /\ \E i \in CallIds :
              /\ Call(i).client = req[r].client
              /\ ~Call(i).limited
              /\ Call(i).now <= req[r].now - Window
        /\ request_history[req[r].client] = <<req[r].now>>


\* C15 as stated: is_rate_limited raises nothing, whatever the limit it was
\* constructed with (0 included), the client and the history: every call
\* returns its pair, the request being admitted or answered 429.
C15_NeverRaises ==
    \A r \in DOMAIN req :
        /\ req[r].raised # PyException(IndexErrorText)
        /\ req[r].pc = "done" => req[r].limited /\ req[r].status = 429

---------------------------------------------------------------------------
(* The chunked reader *)

\* the read loop of r has ended, file.read not failing
ReadEnded(r) ==
    /\ Reached(r, "TypeChecked")
    /\ req[r].pc # "read"
    /\ req[r].raised # PyException(ReadErrorText)

\* the chunks <<position, length>> follow one another from byte 0 to byte total
ChunksInOrder(contents, total) ==
    /\ \A k \in 1 .. Len(contents) : contents[k][2] > 0
    /\ contents # <<>> => contents[1][1] = 0
    /\ \A k \in 1 .. (Len(contents) - 1) :
          contents[k + 1][1] = contents[k][1] + contents[k][2]
    /\ total = IF contents = <<>> THEN 0
               ELSE contents[Len(contents)][1] + contents[Len(contents)][2]

\* C16: the chunked reader succeeds exactly when the upload's length is at most
\* 10 MiB (10 MiB is accepted, 10 MiB + 1 byte is rejected with 413), and on
\* success the buffer is the chunks in order: the source's bytes, as many as the
\* running count.
C16_ReadSucceedsWithinCeiling ==
    \A r \in Reqs :
        ReadEnded(r)
            => /\ Reached(r, "Ingested") <=> req[r].body_len <= MAX_FILE_SIZE
               /\ ~Reached(r, "Ingested")
                     => /\ req[r].pc = "done"
                        /\ req[r].status = 413
                        /\ req[r].detail = TooLargeDetail
               /\ Reached(r, "Ingested")
                     => /\ req[r].file_size = req[r].body_len
                        /\ ChunksInOrder(req[r].contents, req[r].body_len)
                        /\ \A k \in 1 .. Len(req[r].contents) :
                              req[r].contents[k][2] <= chunk_size

\* C16 witness: an upload of exactly 10 MiB has been read whole, in ten chunks.
C16_Witness ==
    \E r \in Reqs :
        /\ req[r].body_len = MAX_FILE_SIZE
        /\ Reached(r, "Ingested")
        /\ req[r].file_size = MAX_FILE_SIZE
        /\ Len(req[r].contents) = 10


\* C17: whatever the upload's length, the buffer of a request never holds more
\* than the ceiling plus one chunk (10 MiB + 1 MiB), in any state of the read
\* loop and after it.
C17_BufferBounded ==
    \A r \in Reqs :
        /\ req[r].file_size <= MAX_FILE_SIZE + chunk_size
        /\ ChunksInOrder(req[r].contents, req[r].file_size)
        /\ Len(req[r].contents) <= MAX_FILE_SIZE \div chunk_size + 1

\* C17 witness: an upload of 11 MiB has ended with 413 with the whole of its
\* 11 MiB in the buffer.
C17_Witness ==
    \E r \in Reqs :
        /\ req[r].body_len = MAX_FILE_SIZE + chunk_size
        /\ req[r].pc = "done"
        /\ req[r].status = 413
        /\ req[r].file_size = MAX_FILE_SIZE + chunk_size

---------------------------------------------------------------------------
(* Termination *)

Terminal == {200, 400, 413, 429, 500}

\* how far a request is
Rank(pc) ==
    CASE pc = "idle" -> 0
      [] pc = "prune" -> 1
      [] pc = "check" -> 2
      [] pc = "append" -> 3
      [] pc = "handler" -> 4
      [] pc = "read" -> 5
      [] pc = "validate" -> 6
      [] pc = "transform" -> 7
      [] pc = "encode" -> 8
      [] pc = "done" -> 9
      [] pc = "closed" -> 10

\* a step leaves request r where it is, or takes it forward: to a later step,
\* or to the next chunk of the read loop; the outcome, once there, stays
Forward(r) ==
    \/ req'[r] = req[r]
    \/ /\ Rank(req'[r].pc) > Rank(req[r].pc)
       /\ req[r].pc = "done" => req'[r].status = req[r].status
    \/ /\ req[r].pc = "read"
       /\ req'[r].pc = "read"
       /\ req'[r].pos > req[r].pos
       /\ req'[r].stages = req[r].stages

\* C18: every request that has arrived ends, its response sent, with one
\* outcome among 200, 400, 413, 429 and 500 (the upload being finite, the
\* library calls returning or raising), and no step takes a request back to an
\* earlier step or repeats one.
C18_ReachesOneOutcome ==
    /\ \A r \in 1 .. MaxReqs :
          (req[r].pc \notin {"idle", "closed"})
              ~> (req[r].pc = "closed" /\ req[r].status \in Terminal)
    /\ [][\A r \in 1 .. MaxReqs : Forward(r)]_vars

\* C18 witness: two requests have ended, one with 200 after the whole pipeline,
\* the other with 413 after eleven turns of the read loop.
C18_Witness ==
    \E r1 \in Reqs, r2 \in Reqs :
        /\ req[r1].pc = "closed"
        /\ req[r1].status = 200
        /\ req[r2].pc = "done"
        /\ req[r2].status = 413
        /\ req[r2].reads = 11

---------------------------------------------------------------------------
(* What a call leaves in the history *)

CallsOf(c) == { i \in CallIds : Call(i).client = c }

LastCallOf(c) == CHOOSE i \in CallsOf(c) : \A j \in CallsOf(c) : j <= i

\* no call of is_rate_limited for client c is between its pruning and its return
NoCallRunning(c) ==
    \A r \in DOMAIN req : req[r].client = c => req[r].pc \notin {"check", "append"}

\* C19: a rejected call appends nothing: it leaves the client's history equal to
\* the pruned history (the admitted timestamps less than 60 seconds old), so
\* the requests made while blocked do not extend the block; an admitted call
\* leaves the pruned history with exactly one timestamp more, its now, at the
\* end, and returns wait 0.
C19_RejectedAppendsNothing ==
    /\ \A c \in DOMAIN request_history :
          (NoCallRunning(c) /\ CallsOf(c) # {})
              => LET i == LastCallOf(c)
                 IN  request_history[c] =
                        IF Call(i).limited
                        THEN AdmittedTimes(i)
                        ELSE Append(AdmittedTimes(i), Call(i).now)
    /\ \A i \in CallIds :
          /\ ~Call(i).limited => Call(i).wait_seconds = 0
          /\ Call(i).limited => Call(i).wait_seconds >= 1

\* C19 witness: a client is rejected twice in a row while blocked, and its
\* history still holds the one admitted timestamp.
C19_Witness ==
    \E i \in CallIds, j \in CallIds :
        /\ i < j
        /\ j = LastCallOf(Call(i).client)
        /\ Call(i).client = Call(j).client
        /\ Call(i).limited
        /\ Call(j).limited
        /\ Call(i).now < Call(j).now
        /\ NoCallRunning(Call(j).client)
        /\ Len(request_history[Call(j).client]) = 1
        /\ request_history[Call(j).client][1] < Call(i).now

---------------------------------------------------------------------------
(* The slot of a request that fails *)

FailStatuses == {400, 413, 500}

\* request r was admitted and has ended with a failure of the handler
AdmittedAndFailed(r) ==
    /\ req[r].pc \in {"done", "closed"}
    /\ req[r].status \in FailStatuses

\* the earlier calls of i's client, less than a window old at call i, that were
\* admitted and have failed
FailedBefore(i) ==
    { j \in IssuedBefore(i) : AdmittedAndFailed(calls[j]) }

\* the elements of a history
Times(history) == { history[k] : k \in 1 .. Len(history) }

\* C20: an admitted request keeps its slot whatever its outcome: when it ends
\* with 400, 413 or 500 its timestamp is still the last of its client's
\* history, it leaves the history only by expiry, and a call that finds
\* requests_per_minute failed requests of its client less than 60 seconds old
\* is answered 429.
C20_FailedRequestKeepsSlot ==
    /\ \A r \in Reqs :
          (req[r].pc = "done" /\ req[r].status \in FailStatuses)
              => /\ request_history[req[r].client] # <<>>
                 /\ request_history[req[r].client]
                       [Len(request_history[req[r].client])] = req[r].now
    /\ \A r \in Reqs :
          AdmittedAndFailed(r)
              => \/ req[r].now \in Times(request_history[req[r].client])
                 \/ \E q \in Reqs : /\ req[q].client = req[r].client
                                    /\ req[q].pc # "idle"
                                    /\ req[r].now <= req[q].now - Window
    /\ \A i \in CallIds :
          Cardinality(FailedBefore(i)) >= requests_per_minute
              => Call(i).status = 429

\* C20 witness: a client's first request was admitted and has failed, and its
\* next request, less than 60 seconds later, is answered 429.
C20_Witness ==
    \E i \in CallIds :
        /\ Cardinality(FailedBefore(i)) = requests_per_minute
        /\ Call(i).status = 429
        /\ Call(i).now > 0

=============================================================================
